---------------------------- MODULE Spec2Model ----------------------------
(***************************************************************************)
(* A model of pubmed_parser.py: the reference segmenter                    *)
(* (extract_references), the per-reference search cascade and match        *)
(* validator (search_pubmed_api), the batch loop with its rate-limit       *)
(* pause (batch_search_pubmed_api) and the "Match References" handler of   *)
(* main.                                                                   *)
(*                                                                         *)
(* Text is a sequence of symbols.  Each symbol stands for a class of       *)
(* characters the segmenter's regular expressions tell apart:              *)
(*   "1"   a decimal digit                  (\d)                           *)
(*   "."   the period                                                      *)
(*   " "   a blank                          (\s, not a line break)         *)
(*   "\n"  a line break                     (\s, line break)               *)
(*   "a"   a lowercase letter               ([a-z])                        *)
(*   "-"   the hyphen                                                      *)
(*   "R"   one of the heading words of line 137, written capitalised       *)
(*         ("References"): not [a-z] at its start, [a-z] at its end.       *)
(***************************************************************************)
EXTENDS Integers, Sequences, FiniteSets, TLC

(***************************************************************************)
(* Bounds of the model.                                                    *)
(***************************************************************************)
\* longest text the segmenter is run on
MaxTextLen == 4

\* most references of one pasted list
MaxRefs == 4

\* most "Match References" runs that reach the search loop
MaxRuns == 1

\* most word tokens of an extracted title
MaxTitleWords == 4

\* lengths, in characters, of the extracted fields a query is built from
ShortTitleLen == 12

LongTitleLen == 60

AuthorLen == 5

JournalLen == 6

(***************************************************************************)
(* Constants of the program.                                               *)
(***************************************************************************)
\* line 20: the year is a run of four digits
YearLen == 4

\* lines 199-200: references are searched in groups of three
GroupSize == 3

\* line 91: required_match = min(3, len(title_words))
MaxRequired == 3

\* line 119: a longer query is cut to 50 characters for the label
LabelMax == 50

\* line 34: the DOI search asks for one identifier
DoiRetmax == 1

\* line 7: a heuristic search asks for retmax = 3 identifiers
Retmax == 3

Alphabet == {"1", ".", " ", "\n", "a", "-", "R"}

Whitespace == {" ", "\n"}

AllTexts == UNION {[1..n -> Alphabet] : n \in 0..MaxTextLen}

(***************************************************************************)
(* String primitives of Python used by extract_references.                 *)
(***************************************************************************)
RECURSIVE LStrip(_)
LStrip(t) ==
    IF t # <<>> /\ Head(t) \in Whitespace THEN LStrip(Tail(t)) ELSE t

RECURSIVE RStrip(_)
RStrip(t) ==
    IF t # <<>> /\ t[Len(t)] \in Whitespace
    THEN RStrip(SubSeq(t, 1, Len(t) - 1))
    ELSE t

\* str.strip()
Strip(t) == RStrip(LStrip(t))

\* str.split('\n'): the pieces between line breaks, empty pieces kept
RECURSIVE SplitNL(_)
SplitNL(t) ==
    IF \A k \in 1..Len(t) : t[k] # "\n"
    THEN <<t>>
    ELSE LET k == CHOOSE j \in 1..Len(t) :
                      t[j] = "\n" /\ \A m \in 1..(j-1) : t[m] # "\n"
         IN  <<SubSeq(t, 1, k - 1)>> \o SplitNL(SubSeq(t, k + 1, Len(t)))

\* str.splitlines(): no line for the empty text, none after a final line break
SplitLines(t) ==
    IF t = <<>> THEN <<>>
    ELSE LET s == SplitNL(t)
         IN  IF t[Len(t)] = "\n" THEN SubSeq(s, 1, Len(s) - 1) ELSE s

\* "\n".join(lines)
RECURSIVE JoinNL(_)
JoinNL(ls) ==
    IF ls = <<>> THEN <<>>
    ELSE IF Len(ls) = 1 THEN ls[1]
    ELSE ls[1] \o <<"\n">> \o JoinNL(Tail(ls))

\* a variant of IsHeading: the first line only has to start with a label
IsHeadingPrefix(lines) ==
    lines # <<>> /\ Strip(lines[1]) # <<>> /\ Head(Strip(lines[1])) = "R"

\* line 137: the first line is one of the heading labels
IsHeading(lines) == lines # <<>> /\ Strip(lines[1]) = <<"R">>

\* lines 136-138: drop a leading heading line
DropHeading(text) ==
    LET lines == SplitLines(Strip(text))
    IN  IF IsHeading(lines) THEN JoinNL(Tail(lines)) ELSE text

\* line 140: re.sub(r'-\n', '-', text)
RECURSIVE JoinHyphen(_)
JoinHyphen(t) ==
    IF Len(t) < 2 THEN t
    ELSE IF t[1] = "-" /\ t[2] = "\n"
         THEN <<"-">> \o JoinHyphen(SubSeq(t, 3, Len(t)))
         ELSE <<t[1]>> \o JoinHyphen(Tail(t))

\* line 141: re.sub(r'([a-z])\n([a-z])', r'\1 \2', text); matches do not overlap
RECURSIVE JoinLower(_)
JoinLower(t) ==
    IF Len(t) < 3 THEN t
    ELSE IF t[1] \in {"a", "R"} /\ t[2] = "\n" /\ t[3] = "a"
         THEN <<t[1], " ", t[3]>> \o JoinLower(SubSeq(t, 4, Len(t)))
         ELSE <<t[1]>> \o JoinLower(Tail(t))

\* the end of the longest run of symbols of S that starts at p (p - 1: none)
RECURSIVE RunEnd(_, _, _)
RunEnd(t, p, S) ==
    IF p <= Len(t) /\ t[p] \in S THEN RunEnd(t, p + 1, S) ELSE p - 1

\* \d+\.?\s+ at p: <<last digit, last symbol>> of the match, <<0, 0>> if none
OrdinalAt(t, p) ==
    LET d == RunEnd(t, p, {"1"})
        q == IF d + 1 <= Len(t) /\ t[d + 1] = "." THEN d + 1 ELSE d
        w == RunEnd(t, q + 1, Whitespace)
        v == RunEnd(t, d + 1, Whitespace)
    IN  IF d < p THEN <<0, 0>>
        ELSE IF w > q THEN <<d, w>>
        ELSE IF v > d THEN <<d, v>>
        ELSE <<0, 0>>

\* (?:^|\n)(\d+)\.?\s+ at p: <<first digit, last digit, last symbol>>
OrdinalStart(t, p) ==
    LET atStart == IF p = 1 THEN OrdinalAt(t, 1) ELSE <<0, 0>>
        afterNL == IF p <= Len(t) /\ t[p] = "\n"
                   THEN OrdinalAt(t, p + 1) ELSE <<0, 0>>
    IN  IF atStart # <<0, 0>> THEN <<1, atStart[1], atStart[2]>>
        ELSE IF afterNL # <<0, 0>> THEN <<p + 1, afterNL[1], afterNL[2]>>
        ELSE <<0, 0, 0>>

\* (?=(?:\n\d+\.?\s+)|$) at e; $ also matches before a final line break
BodyEndsAt(t, e) ==
    \/ e = Len(t) + 1
    \/ e = Len(t) /\ t[e] = "\n"
    \/ e <= Len(t) /\ t[e] = "\n" /\ OrdinalAt(t, e + 1) # <<0, 0>>

\* lines 142-143: re.findall(pattern, text, re.DOTALL) from position s on
RECURSIVE FindAll(_, _)
FindAll(t, s) ==
    LET starts == {p \in s..Len(t) : OrdinalStart(t, p) # <<0, 0, 0>>}
    IN  IF starts = {} THEN <<>>
        ELSE LET p == CHOOSE x \in starts : \A y \in starts : x <= y
                 o == OrdinalStart(t, p)
                 b == o[3] + 1
                 e == CHOOSE x \in b..(Len(t) + 1) :
                          /\ BodyEndsAt(t, x)
                          /\ \A y \in b..(x - 1) : ~BodyEndsAt(t, y)
             IN  <<<<SubSeq(t, o[1], o[2]), SubSeq(t, b, e - 1)>>>>
                     \o FindAll(t, e)

\* line 148: re.sub(r'\n', ' ', content).strip()
CleanContent(c) ==
    Strip([k \in 1..Len(c) |-> IF c[k] = "\n" THEN " " ELSE c[k]])

\* lines 145-150: the primary parse keeps the labels as written
PrimaryParse(matches) ==
    [k \in 1..Len(matches) |-> <<matches[k][1], CleanContent(matches[k][2])>>]

DigitChar == <<"1", "2", "3", "4", "5", "6", "7", "8", "9">>

\* str(n) of line 153
RECURSIVE Str(_)
Str(n) ==
    IF n < 10 THEN <<DigitChar[n]>>
    ELSE Str(n \div 10) \o <<IF n % 10 = 0 THEN "0" ELSE DigitChar[n % 10]>>

RECURSIVE NonBlankLines(_)
NonBlankLines(ls) ==
    IF ls = <<>> THEN <<>>
    ELSE IF Strip(ls[1]) # <<>>
         THEN <<Strip(ls[1])>> \o NonBlankLines(Tail(ls))
         ELSE NonBlankLines(Tail(ls))

\* lines 152-153: every non-blank line is one reference, numbered from 1
FallbackParse(text) ==
    LET refs == NonBlankLines(SplitNL(text))
    IN  [k \in 1..Len(refs) |-> <<Str(k), refs[k]>>]

\* lines 135-153
extract_references(text) ==
    LET joined  == JoinLower(JoinHyphen(DropHeading(text)))
        matches == FindAll(joined, 1)
    IN  IF matches # <<>> THEN PrimaryParse(matches) ELSE FallbackParse(joined)


(***************************************************************************)
(* search_pubmed_api: the query profile, the cascade, the validator.       *)
(***************************************************************************)
Words == {"deep", "learning", "proteins", "neural"}

SeqsUpTo(S, n) == UNION {[1..m -> S] : m \in 0..n}

Min(a, b) == IF a < b THEN a ELSE b

Range(s) == {s[k] : k \in 1..Len(s)}

\* lines 11-27: what the regular expressions extract from one reference.
\* A field is the length of the extracted string (0: nothing extracted);
\* title_words is the token list of line 18.  A DOI holds four digits, so
\* the year of line 20 is found whenever a DOI is; tokens come from raw_title.
ProfileOK(p) ==
    /\ p.doi => p.year = YearLen
    /\ Len(p.title_words) * 2 <= p.raw_title + 1

Profile(d, t, w, a, y, j) ==
    [doi |-> d, raw_title |-> t, title_words |-> w,
     first_author |-> a, year |-> y, journal |-> j]

NoProfile == Profile(FALSE, 0, <<>>, 0, 0, 0)

\* every combination of fields, a short or a long title
ProfilesSearch ==
    {p \in {Profile(d, t, w, a, y, j) :
                d \in BOOLEAN, t \in {0, ShortTitleLen, LongTitleLen},
                w \in {<<>>, <<"deep", "learning", "proteins">>},
                a \in {0, AuthorLen}, y \in {0, YearLen}, j \in {0, JournalLen}} :
        ProfileOK(p)}

\* every title token list, with and without a DOI
ProfilesVal ==
    {p \in {Profile(d, LongTitleLen, w, 0, YearLen, 0) :
                d \in BOOLEAN, w \in SeqsUpTo(Words, MaxTitleWords)} :
        ProfileOK(p)}

\* a DOI with a title, a DOI alone, nothing at all
ProfilesRun ==
    {Profile(TRUE, ShortTitleLen, <<"deep">>, 0, YearLen, 0),
     Profile(TRUE, 0, <<>>, 0, YearLen, 0),
     Profile(FALSE, 0, <<>>, 0, 0, 0)}

CandidatesRun == {<<>>, <<"deep", "learning">>}

\* the elements of a set of words, in some order
RECURSIVE SeqOf(_)
SeqOf(S) ==
    IF S = {} THEN <<>>
    ELSE LET w == CHOOSE x \in S : TRUE IN <<w>> \o SeqOf(S \ {w})

\* one candidate title for every set of words
CandidatesVal == {SeqOf(S) : S \in SUBSET Words}

NoQuery == [q |-> 0, len |-> 0]

\* lines 52-58: the five heuristic queries, None (NoQuery) where a field is
\* missing; a query is its place in the list and its length in characters
search_strategies(p) ==
    << IF p.raw_title > 0 /\ p.first_author > 0 /\ p.year > 0 /\ p.journal > 0
       THEN [q |-> 1, len |-> p.raw_title + 5 + p.first_author + 8 + 5
                              + p.year + 6 + 5 + p.journal + 9]
       ELSE NoQuery,
       IF p.raw_title > 0 /\ p.journal > 0
       THEN [q |-> 2, len |-> p.raw_title + 5 + p.journal + 9]
       ELSE NoQuery,
       IF p.first_author > 0 /\ p.journal > 0 /\ p.year > 0
       THEN [q |-> 3, len |-> p.first_author + 8 + 5 + p.journal + 9 + 5
                              + p.year + 6]
       ELSE NoQuery,
       IF p.raw_title > 0
       THEN [q |-> 4, len |-> p.raw_title]
       ELSE NoQuery,
       IF p.first_author > 0 /\ p.year > 0
       THEN [q |-> 5, len |-> p.first_author + 8 + 5 + p.year + 6]
       ELSE NoQuery >>

\* lines 60-62: the next query of the list at or after place s that is not
\* None (NoQuery: the loop is over)
NextQuery(p, s) ==
    LET left == {n \in s..Len(search_strategies(p)) :
                     search_strategies(p)[n] # NoQuery}
    IN  IF left = {} THEN NoQuery
        ELSE search_strategies(p)[CHOOSE n \in left : \A m \in left : n <= m]

\* a response of the search service: a failed request (transport error,
\* non-2xx status, malformed JSON) or a list of identifiers
SearchResponses(retmax) ==
    {[ok |-> FALSE, idlist |-> <<>>]}
        \cup {[ok |-> TRUE, idlist |-> l] :
                  l \in {x \in {<<>>, <<"p1">>, <<"p2", "p1">>} :
                             Len(x) <= retmax}}

\* lines 36-39 and 44-48, 65-68 and 71-72: the identifiers of a response;
\* a failed request leaves none
IdList(resp) == IF resp.ok THEN resp.idlist ELSE <<>>

\* a variant of NeedsFallback: the heuristic strategies always run
AlwaysFallback(ids) == TRUE

\* line 51: the heuristic strategies run only without identifiers
NeedsFallback(ids) == ids = <<>>

\* a variant of StopsAt: the loop has no break
NeverStops(ids) == FALSE

\* lines 69-70: the loop stops at the first non-empty identifier list
StopsAt(ids) == ids # <<>>

\* a response of the summary service: a failed request, no record for the
\* identifier, or a record; wellformed = FALSE is a record whose fields make
\* lines 97-105 raise (an author without a name, a date that is no string)
NoSummary == [ok |-> FALSE, found |-> FALSE, title |-> <<>>, wellformed |-> FALSE]

SummaryResponses(cands) ==
    {NoSummary, [NoSummary EXCEPT !.ok = TRUE]}
        \cup {[ok |-> TRUE, found |-> TRUE, title |-> c, wellformed |-> wf] :
                  c \in cands, wf \in BOOLEAN}

\* line 90: len(set(title_words).intersection(pub_title_words))
word_overlap(title_words, pub_title_words) ==
    Cardinality(Range(title_words) \cap Range(pub_title_words))

\* line 91: min(3, len(title_words))
required_match(title_words) == Min(MaxRequired, Len(title_words))

\* lines 93-94: the candidate is kept unless the overlap is too small
Validates(title_words, pub_title_words) ==
    ~(word_overlap(title_words, pub_title_words) < required_match(title_words))

\* line 119: "DOI" if doi else query[:50] + "..." if len(query) > 50 else query
StrategyLabel(doi, query) ==
    IF doi
    THEN [kind |-> "DOI", q |-> 0, shown |-> 3, ellipsis |-> FALSE]
    ELSE IF query.len > LabelMax
         THEN [kind |-> "query", q |-> query.q, shown |-> LabelMax, ellipsis |-> TRUE]
         ELSE [kind |-> "query", q |-> query.q, shown |-> query.len, ellipsis |-> FALSE]

\* a variant of SummaryResult: the status and the record are not checked
SummaryResultUnchecked(p, query, resp) ==
    IF Validates(p.title_words, resp.title)
    THEN <<[strategy |-> StrategyLabel(p.doi, query)]>>
    ELSE <<>>

\* lines 77-122: what search_pubmed_api returns for a summary response
SummaryResult(p, query, resp) ==
    IF resp.ok /\ resp.found /\ Validates(p.title_words, resp.title)
               /\ resp.wellformed
    THEN <<[strategy |-> StrategyLabel(p.doi, query)]>>
    ELSE <<>>

\* a variant of AppendResult: a reference without a result adds nothing
AppendResultSkipNone(results, result) ==
    IF result = <<>> THEN results ELSE Append(results, result)

\* line 131: results.append(result[0] if result else None); None is <<>>
AppendResult(results, result) == Append(results, result)

\* a variant of NoReferences: the empty list is not told apart
NeverNoReferences(refs) == FALSE

\* line 189
NoReferences(refs) == Len(refs) = 0

\* line 200: references[i:i+3], i counted from 1
Group(refs, i) == SubSeq(refs, i, Min(i + GroupSize - 1, Len(refs)))

\* lines 204-211: the matched references of a group, in the group's order;
\* pos is the reference's place in the segmented list
RECURSIVE MatchedOf(_, _, _, _)
MatchedOf(group, group_results, i, j) ==
    IF j > Len(group_results) THEN <<>>
    ELSE (IF group_results[j] # <<>>
          THEN <<[number |-> group[j][1], original_ref |-> group[j][2],
                  pos |-> i + j - 1, strategy |-> group_results[j][1].strategy]>>
          ELSE <<>>) \o MatchedOf(group, group_results, i, j + 1)

\* a variant of UnmatchedOf: each unmatched reference is put in front
RECURSIVE UnmatchedOfReversed(_, _, _, _)
UnmatchedOfReversed(group, group_results, i, j) ==
    IF j > Len(group_results) THEN <<>>
    ELSE UnmatchedOfReversed(group, group_results, i, j + 1)
         \o (IF group_results[j] # <<>>
             THEN <<>>
             ELSE <<[number |-> group[j][1], ref |-> group[j][2],
                     pos |-> i + j - 1]>>)

RECURSIVE UnmatchedOf(_, _, _, _)
UnmatchedOf(group, group_results, i, j) ==
    IF j > Len(group_results) THEN <<>>
    ELSE (IF group_results[j] # <<>>
          THEN <<>>
          ELSE <<[number |-> group[j][1], ref |-> group[j][2], pos |-> i + j - 1]>>)
         \o UnmatchedOf(group, group_results, i, j + 1)

(***************************************************************************)
(* The texts the runs are started on: blank texts, and lists of 1..MaxRefs *)
(* references, numbered (primary parse) or not (fallback parse).           *)
(***************************************************************************)
RECURSIVE PlainList(_)
PlainList(n) == IF n = 1 THEN <<".">> ELSE PlainList(n - 1) \o <<"\n", ".">>

RECURSIVE NumberedList(_)
NumberedList(n) ==
    IF n = 1 THEN <<"1", " ", "a">>
    ELSE NumberedList(n - 1) \o <<"\n", "1", ".", " ", "a">>

BlankTexts == {<<>>, <<" ">>, <<"\n", " ">>}

RunTexts ==
    BlankTexts \cup {<<"R">>}
        \cup {PlainList(n) : n \in 1..MaxRefs}
        \cup {NumberedList(n) : n \in 1..MaxRefs}

VARIABLES
    reference_text,     \* the text area of line 176
    session_matched,    \* st.session_state.matched_refs
    session_unmatched,  \* st.session_state.unmatched_refs
    outcome,            \* what the last press of the button showed
    runs,               \* runs that reached the search loop
    pc,                 \* where the handler stands
    references,         \* main: references
    matched_refs,       \* main: matched_refs
    unmatched_refs,     \* main: unmatched_refs
    i,                  \* main: the first place of the current group
    k,                  \* batch_search_pubmed_api: the place in the group
    results,            \* batch_search_pubmed_api: results
    profile,            \* search_pubmed_api: the extracted fields
    pmids,              \* search_pubmed_api: pmids
    query,              \* search_pubmed_api: query
    summary,            \* search_pubmed_api: the summary response
    result,             \* the value search_pubmed_api returns
    calls,              \* the external calls since the last time.sleep
    first_failure       \* the first place whose processing met a failure

session == <<session_matched, session_unmatched>>
mainLocals == <<references, matched_refs, unmatched_refs, i, k, results>>
searchLocals == <<profile, pmids, query, summary, result>>
vars == <<reference_text, session, outcome, runs, pc, mainLocals,
          searchLocals, calls, first_failure>>

\* lines 176-180: a fresh session, an empty text area
Fresh(text) ==
    /\ reference_text = text
    /\ session_matched = <<>>
    /\ session_unmatched = <<>>
    /\ outcome = "none"
    /\ runs = 0
    /\ pc = "idle"
    /\ references = <<>>
    /\ matched_refs = <<>>
    /\ unmatched_refs = <<>>
    /\ i = 1
    /\ k = 1
    /\ results = <<>>
    /\ profile = NoProfile
    /\ pmids = <<>>
    /\ query = NoQuery
    /\ summary = NoSummary
    /\ result = <<>>
    /\ calls = <<>>
    /\ first_failure = 0

Init == Fresh(<<>>)

\* the place, in the segmented list, of the reference being searched
Pos == i + k - 1

\* the user changes the text: the script reruns without the button
EditText ==
    /\ pc = "idle"
    /\ \E t \in RunTexts :
          /\ t # reference_text
          /\ reference_text' = t
    /\ outcome' = "none"
    /\ UNCHANGED <<session, runs, pc, mainLocals, searchLocals, calls,
                   first_failure>>

\* lines 182-185: the button with an empty text area
PressNoText ==
    /\ pc = "idle"
    /\ reference_text = <<>>
    /\ outcome' = "warning: paste text first"
    /\ UNCHANGED <<reference_text, session, runs, pc, mainLocals,
                   searchLocals, calls, first_failure>>

\* lines 187-191: the button with a text that holds no reference
PressNoReferences ==
    /\ pc = "idle"
    /\ reference_text # <<>>
    /\ NoReferences(extract_references(reference_text))
    /\ references' = extract_references(reference_text)
    /\ outcome' = "error: no references found"
    /\ UNCHANGED <<reference_text, session, runs, pc, matched_refs,
                   unmatched_refs, i, k, results, searchLocals, calls,
                   first_failure>>

\* lines 215-216: the run's lists replace the session's
Store(m, u) ==
    /\ session_matched' = m
    /\ session_unmatched' = u
    /\ outcome' = "matched"
    /\ pc' = "idle"

\* lines 187-202: the button with references; the first group's first search
\* is about to start
PressMatch ==
    /\ pc = "idle"
    /\ runs < MaxRuns
    /\ reference_text # <<>>
    /\ ~NoReferences(extract_references(reference_text))
    /\ references' = extract_references(reference_text)
    /\ runs' = runs + 1
    /\ matched_refs' = <<>>
    /\ unmatched_refs' = <<>>
    /\ i' = 1
    /\ k' = 1
    /\ results' = <<>>
    /\ first_failure' = 0
    /\ IF Len(references') = 0
       THEN Store(<<>>, <<>>)
       ELSE /\ pc' = "enter"
            /\ outcome' = "none"
            /\ UNCHANGED session
    /\ UNCHANGED <<reference_text, searchLocals, calls>>

\* lines 74-75: no identifiers, search_pubmed_api returns []
ReturnNothing ==
    /\ result' = <<>>
    /\ pc' = "return"

NoteFailure(failed) ==
    first_failure' = IF failed /\ first_failure = 0 THEN Pos ELSE first_failure

\* lines 7-33: search_pubmed_api is entered and extracts the fields
EnterSearch(profiles) ==
    /\ pc = "enter"
    /\ \E p \in profiles :
          /\ profile' = p
          /\ pmids' = <<>>
          /\ summary' = NoSummary
          /\ IF p.doi
             THEN /\ pc' = "doi"
                  /\ query' = NoQuery
                  /\ result' = <<>>
             ELSE IF NextQuery(p, 1) = NoQuery
                  THEN /\ ReturnNothing
                       /\ query' = NoQuery
                  ELSE /\ query' = NextQuery(p, 1)
                       /\ pc' = "search"
                       /\ result' = <<>>
    /\ UNCHANGED <<reference_text, session, outcome, runs, mainLocals, calls,
                   first_failure>>

\* lines 34-48: the DOI search and its answer
DoiSearch ==
    /\ pc = "doi"
    /\ \E resp \in SearchResponses(DoiRetmax) :
          /\ calls' = Append(calls, [api |-> "esearch", q |-> 0, ok |-> resp.ok,
                                     ids |-> resp.idlist])
          /\ pmids' = IdList(resp)
          /\ NoteFailure(~resp.ok)
          /\ IF NeedsFallback(pmids')
             THEN IF NextQuery(profile, 1) = NoQuery
                  THEN /\ ReturnNothing
                       /\ UNCHANGED query
                  ELSE /\ query' = NextQuery(profile, 1)
                       /\ pc' = "search"
                       /\ UNCHANGED result
             ELSE /\ pc' = "summary"
                  /\ UNCHANGED <<query, result>>
    /\ UNCHANGED <<reference_text, session, outcome, runs, mainLocals,
                   profile, summary>>

\* lines 60-75: one heuristic search and its answer
HeuristicSearch ==
    /\ pc = "search"
    /\ \E resp \in SearchResponses(Retmax) :
          /\ calls' = Append(calls, [api |-> "esearch", q |-> query.q,
                                     ok |-> resp.ok, ids |-> resp.idlist])
          /\ pmids' = IdList(resp)
          /\ NoteFailure(~resp.ok)
          /\ IF StopsAt(pmids')
             THEN /\ pc' = "summary"
                  /\ UNCHANGED <<query, result>>
             ELSE IF NextQuery(profile, query.q + 1) = NoQuery
                  THEN /\ ReturnNothing
                       /\ UNCHANGED query
                  ELSE /\ query' = NextQuery(profile, query.q + 1)
                       /\ pc' = "search"
                       /\ UNCHANGED result
    /\ UNCHANGED <<reference_text, session, outcome, runs, mainLocals,
                   profile, summary>>

\* lines 77-122: the summary lookup of pmids[0], the validation, the result
SummaryLookup(cands) ==
    /\ pc = "summary"
    /\ \E resp \in SummaryResponses(cands) :
          /\ calls' = Append(calls, [api |-> "esummary", q |-> 0,
                                     ok |-> resp.ok, ids |-> <<pmids[1]>>])
          /\ summary' = resp
          /\ result' = SummaryResult(profile, query, resp)
          /\ NoteFailure(~resp.ok \/ (resp.found /\ ~resp.wellformed))
    /\ pc' = "return"
    /\ UNCHANGED <<reference_text, session, outcome, runs, mainLocals,
                   profile, pmids, query>>

\* lines 130-132: the result joins the group's results, then time.sleep(0.34)
ReturnAndSleep ==
    /\ pc = "return"
    /\ results' = AppendResult(results, result)
    /\ calls' = <<>>
    /\ profile' = NoProfile
    /\ pmids' = <<>>
    /\ query' = NoQuery
    /\ summary' = NoSummary
    /\ result' = <<>>
    /\ k' = k + 1
    /\ pc' = IF k < Len(Group(references, i)) THEN "enter" ELSE "classify"
    /\ UNCHANGED <<reference_text, session, outcome, runs, references,
                   matched_refs, unmatched_refs, i, first_failure>>

\* lines 204-216: the group's results are classified; the next group starts
\* or the run's lists are stored
ClassifyGroup ==
    /\ pc = "classify"
    /\ matched_refs' =
           matched_refs \o MatchedOf(Group(references, i), results, i, 1)
    /\ unmatched_refs' =
           unmatched_refs \o UnmatchedOf(Group(references, i), results, i, 1)
    /\ i' = i + GroupSize
    /\ k' = 1
    /\ results' = <<>>
    /\ IF i' > Len(references)
       THEN Store(matched_refs', unmatched_refs')
       ELSE /\ pc' = "enter"
            /\ UNCHANGED <<session, outcome>>
    /\ UNCHANGED <<reference_text, runs, references, searchLocals, calls,
                   first_failure>>

Next ==
    \/ EditText
    \/ PressNoText
    \/ PressNoReferences
    \/ PressMatch
    \/ EnterSearch(ProfilesRun)
    \/ DoiSearch
    \/ HeuristicSearch
    \/ SummaryLookup(CandidatesRun)
    \/ ReturnAndSleep
    \/ ClassifyGroup

Spec == Init /\ [][Next]_vars

(***************************************************************************)
(* The segmenter alone: the button is pressed on every text of up to       *)
(* MaxTextLen symbols.                                                     *)
(***************************************************************************)
InitSeg == \E t \in AllTexts : Fresh(t)

NextSeg ==
    \/ PressNoText
    \/ PressNoReferences
    \/ PressMatch

SpecSeg == InitSeg /\ [][NextSeg]_vars

(***************************************************************************)
(* The search of one reference, over every combination of extracted        *)
(* fields.                                                                 *)
(***************************************************************************)
InitOne == \E t \in {PlainList(1), NumberedList(1)} : Fresh(t)

NextSearch ==
    \/ PressMatch
    \/ EnterSearch(ProfilesSearch)
    \/ DoiSearch
    \/ HeuristicSearch
    \/ SummaryLookup(CandidatesRun)
    \/ ReturnAndSleep
    \/ ClassifyGroup

SpecSearch == InitOne /\ [][NextSearch]_vars

(***************************************************************************)
(* The validation of one reference's candidate, over every title token list *)
(* of up to MaxTitleWords words and every set of candidate title words.    *)
(***************************************************************************)
NextVal ==
    \/ PressMatch
    \/ EnterSearch(ProfilesVal)
    \/ DoiSearch
    \/ HeuristicSearch
    \/ SummaryLookup(CandidatesVal)
    \/ ReturnAndSleep
    \/ ClassifyGroup

SpecVal == InitOne /\ [][NextVal]_vars


(***************************************************************************)
(* The properties.                                                         *)
(***************************************************************************)
\* the run of the button has just ended with its lists stored
RunDone == pc = "idle" /\ outcome = "matched"

\* how often place p occurs in a list of classified references
Occurrences(s, p) == Cardinality({n \in 1..Len(s) : s[n].pos = p})

Increasing(s) ==
    \A a, b \in 1..Len(s) : a < b => s[a].pos < s[b].pos

\* a search call that returned identifiers
Hit(c) == c.api = "esearch" /\ c.ok /\ c.ids # <<>>

IsDoiCall(c) == c.api = "esearch" /\ c.q = 0

\* the heuristic queries sent for the current reference
HeuristicCalls == SelectSeq(calls, LAMBDA c : c.api = "esearch" /\ c.q > 0)

\* the fields each heuristic strategy needs, in the order of the cascade:
\* title+author+year+journal, title+journal, author+journal+year, title,
\* author+year
HasFields(p, q) ==
    CASE q = 1 -> p.raw_title > 0 /\ p.first_author > 0 /\ p.year > 0
                  /\ p.journal > 0
      [] q = 2 -> p.raw_title > 0 /\ p.journal > 0
      [] q = 3 -> p.first_author > 0 /\ p.journal > 0 /\ p.year > 0
      [] q = 4 -> p.raw_title > 0
      [] q = 5 -> p.first_author > 0 /\ p.year > 0

Expected(p) == {q \in 1..5 : HasFields(p, q)}

\* the n-th smallest element of a set of numbers
Kth(S, n) == CHOOSE x \in S : Cardinality({y \in S : y < x}) = n - 1

\* the DOI step found nothing: no DOI, or its search was empty or failed
DoiFoundNothing ==
    \/ ~profile.doi
    \/ calls # <<>> /\ IsDoiCall(calls[1]) /\ ~Hit(calls[1])

IsBlank(t) == \A n \in 1..Len(t) : t[n] \in Whitespace

\* C1: after a complete run every segmented reference is in exactly one of
\* the matched and unmatched collections, whatever the searches answered, and
\* the two lengths add up to the number of references.
C1_Partition ==
    RunDone =>
        /\ Len(session_matched) + Len(session_unmatched) = Len(references)
        /\ \A p \in 1..Len(references) :
              Occurrences(session_matched, p)
                  + Occurrences(session_unmatched, p) = 1
        /\ \A n \in 1..Len(session_matched) :
              /\ session_matched[n].pos \in 1..Len(references)
              /\ session_matched[n].number
                     = references[session_matched[n].pos][1]
              /\ session_matched[n].original_ref
                     = references[session_matched[n].pos][2]
        /\ \A n \in 1..Len(session_unmatched) :
              /\ session_unmatched[n].pos \in 1..Len(references)
              /\ session_unmatched[n].number
                     = references[session_unmatched[n].pos][1]
              /\ session_unmatched[n].ref
                     = references[session_unmatched[n].pos][2]

\* a run over a list that is no multiple of the group size, with a failure,
\* matched and unmatched references
C1_Witness ==
    /\ RunDone
    /\ Len(references) = GroupSize + 1
    /\ first_failure # 0
    /\ session_matched # <<>>
    /\ session_unmatched # <<>>

\* C3: once the DOI search has returned identifiers, no heuristic query is
\* sent for the reference; the one later call is the summary lookup of the
\* first identifier.
C3_DoiShortCircuit ==
    \A n \in 1..Len(calls) :
        (IsDoiCall(calls[n]) /\ Hit(calls[n])) =>
            /\ Len(calls) <= n + 1
            /\ pc = "summary" => Len(calls) = n
            /\ pc = "return" => Len(calls) = n + 1
            /\ Len(calls) = n + 1 =>
                  /\ calls[n + 1].api = "esummary"
                  /\ calls[n + 1].ids = <<calls[n].ids[1]>>

\* a reference with every field extracted, matched through its DOI
C3_Witness ==
    /\ pc = "return"
    /\ Expected(profile) = 1..5
    /\ Len(calls) = 2
    /\ IsDoiCall(calls[1]) /\ Hit(calls[1])
    /\ calls[2].api = "esummary"
    /\ result # <<>>

\* C5: the matched and the unmatched references each keep the order of the
\* segmented list, during the run and in the stored collections.
C5_OrderKept ==
    /\ Increasing(matched_refs)
    /\ Increasing(unmatched_refs)
    /\ Increasing(session_matched)
    /\ Increasing(session_unmatched)
    /\ RunDone =>
          /\ \A n \in 1..Len(session_matched) :
                session_matched[n].number
                    = references[session_matched[n].pos][1]
          /\ \A n \in 1..Len(session_unmatched) :
                session_unmatched[n].number
                    = references[session_unmatched[n].pos][1]

\* four references, two groups, two matched around two unmatched
C5_Witness ==
    /\ RunDone
    /\ Len(references) = GroupSize + 1
    /\ Len(session_matched) = 2
    /\ Len(session_unmatched) = 2
    /\ session_matched[1].pos = 1
    /\ session_matched[2].pos = GroupSize + 1

\* C8: when the DOI step found nothing, the heuristic queries are sent in
\* the order of the cascade, a strategy with a missing field is skipped, a
\* failed request counts as an empty answer, nothing is sent after the first
\* answer with identifiers, and without such an answer the reference is
\* unmatched.
C8_HeuristicOrder ==
    (pc \in {"search", "summary", "return"} /\ DoiFoundNothing) =>
        LET h == HeuristicCalls
            want == Expected(profile)
        IN  /\ Len(h) <= Cardinality(want)
            /\ \A n \in 1..Len(h) : h[n].q = Kth(want, n)
            /\ \A n \in 1..(Len(h) - 1) : ~Hit(h[n])
            /\ pc = "search" =>
                  /\ \A n \in 1..Len(h) : ~Hit(h[n])
                  /\ Len(h) < Cardinality(want)
                  /\ query.q = Kth(want, Len(h) + 1)
            /\ pc = "summary" => h # <<>> /\ Hit(h[Len(h)])
            /\ pc = "return" =>
                  \/ h # <<>> /\ Hit(h[Len(h)])
                  \/ /\ Len(h) = Cardinality(want)
                     /\ \A n \in 1..Len(calls) : calls[n].api = "esearch"
                     /\ result = <<>>

\* a DOI whose search failed, a skipped strategy, a failed heuristic request
\* and then one that returns identifiers
C8_Witness ==
    /\ pc = "return"
    /\ profile.doi
    /\ ~calls[1].ok
    /\ Expected(profile) = {4, 5}
    /\ Len(HeuristicCalls) = 2
    /\ ~HeuristicCalls[1].ok
    /\ Hit(HeuristicCalls[2])

\* C9: a matched result is labelled "DOI" exactly when its identifiers came
\* from the DOI search; otherwise the label is the heuristic query that
\* returned them, cut to 50 characters plus "..." when longer.
C9_StrategyLabel ==
    (pc = "return" /\ result # <<>>) =>
        LET from  == calls[Len(calls) - 1]
            label == result[1].strategy
            len   == search_strategies(profile)[from.q].len
        IN  IF from.q = 0
            THEN label.kind = "DOI"
            ELSE /\ label.kind = "query"
                 /\ label.q = from.q
                 /\ label.shown = Min(len, LabelMax)
                 /\ label.ellipsis = (len > LabelMax)

\* C10: the rate-limit pause runs between any two consecutive external calls.
C10_PauseBetweenCalls == Len(calls) <= 1

\* C2: a retrieved candidate is accepted exactly when enough of the
\* profile's title words occur in its title: at least min(3, number of title
\* words); so a profile of fewer than 3 title words is accepted when all of
\* them occur, and a profile without title words accepts any record.
C2_ValidatorThreshold ==
    (pc = "return" /\ summary.ok /\ summary.found /\ summary.wellformed) =>
        LET words    == Range(profile.title_words)
            shared   == Cardinality(words \cap Range(summary.title))
            accepted == result # <<>>
        IN  /\ accepted <=> shared >= Min(3, Cardinality(words))
            /\ (Len(profile.title_words) < 3 /\ words \subseteq Range(summary.title))
                   => accepted
            /\ profile.title_words = <<>> => accepted

C6_BlankMeansNoReferencesFound ==
    (pc = "idle" /\ IsBlank(reference_text) /\ outcome # "none") =>
        outcome = "error: no references found"

\* C6, amended: the button on an empty text ends in the "paste text first"
\* warning, on a whitespace-only text in zero references and the "no
\* references found" error; either way the handler returns at once: the
\* search loop is not entered, no call is made, the stored collections stay.
C6_BlankInput ==
    [][(pc = "idle" /\ IsBlank(reference_text)
            /\ reference_text' = reference_text) =>
          /\ pc' = "idle"
          /\ runs' = runs
          /\ calls' = calls
          /\ session_matched' = session_matched
          /\ session_unmatched' = session_unmatched
          /\ outcome' = IF reference_text = <<>>
                        THEN "warning: paste text first"
                        ELSE "error: no references found"
          /\ reference_text # <<>> => references' = <<>>]_vars

\* after a run that stored references, the button on a whitespace-only text
C6_Witness ==
    /\ pc = "idle"
    /\ reference_text # <<>>
    /\ IsBlank(reference_text)
    /\ outcome = "error: no references found"
    /\ references = <<>>
    /\ session_matched # <<>>
    /\ session_unmatched # <<>>

\* extract_references has been applied to the text
Segmented == pc = "enter" \/ outcome = "error: no references found"

\* C7 as stated: a text with a non-blank line yields at least one reference.
C7_NonBlankYieldsReference ==
    (Segmented /\ ~IsBlank(reference_text)) => references # <<>>

\* the text starts with a heading line: a label alone on the first
\* non-blank line
LeadingHeading(t) ==
    LET body == LStrip(t)
    IN  /\ body # <<>>
        /\ body[1] = "R"
        /\ \A n \in 2..Len(body) :
              (\A m \in 2..n : body[m] # "\n") => body[n] = " "

\* the text holds something besides blanks and a leading heading line
HasContent(t) ==
    LET body == LStrip(t)
    IN  IF LeadingHeading(t) THEN ~IsBlank(Tail(body)) ELSE ~IsBlank(t)

\* C7, amended: extract_references returns no reference exactly when the
\* text, a leading heading line apart, is blank; any other text yields at
\* least one reference, by the primary or by the fallback parse.
C7_EmptyOnlyIfNoContent ==
    Segmented => (references = <<>> <=> ~HasContent(reference_text))

\* a heading line followed by one reference
C7_Witness ==
    /\ Segmented
    /\ LeadingHeading(reference_text)
    /\ HasContent(reference_text)
    /\ Len(references) = 1

=============================================================================
